---- MODULE Spec2Model ----
(***************************************************************************)
(* A model of web_crawler.py: the thread safe UrlStore, the retry loop of  *)
(* WebPage and the WebCrawler that drains the store with a pool of         *)
(* threads.                                                                *)
(*                                                                         *)
(* Every `with self._lock:` block is two steps: the acquisition of the     *)
(* lock and the body together with the release.                            *)
(***************************************************************************)
EXTENDS Integers, Sequences, FiniteSets, TLC

(***************************************************************************)
(* Bounds of the model.                                                    *)
(***************************************************************************)
\* worker threads of the crawler (num_threads), callers of the store
NumThreads == 2
\* the pages of the crawled site are /0 (the starting url) .. /MaxPath
MaxPath == 3
\* the urls the callers of a bare UrlStore pass to it are /0 .. /MaxStorePath
MaxStorePath == 1
\* the callers of a bare UrlStore stop calling add_failed at this length
MaxFailed == 2
\* the largest max_retries a WebPage is constructed with
MaxRetriesArg == 4
\* the largest delay_sec a WebPage is constructed with
MaxDelayArg == 2

(***************************************************************************)
(* Program constants.                                                      *)
(***************************************************************************)
\* WebPage.__init__(self, url, max_retries = 3, delay_sec = 1)
DefaultMaxRetries == 3
DefaultDelaySec == 1

(***************************************************************************)
(* Urls, as urlparse sees them: scheme, netloc and path.                   *)
(***************************************************************************)
None == [scheme |-> "None", netloc |-> "None", path |-> 0]

Url(s, h, p) == [scheme |-> s, netloc |-> h, path |-> p]

\* WebCrawler(starting_url): the url the crawl starts from
starting_url == Url("http", "example.com", 0)

\* the pages of the site of the starting url
SiteUrls == {Url("http", "example.com", p) : p \in 0..MaxPath}

\* links that lead out of the site or are no urls to crawl at all
NoiseUrls ==
    { Url("http", "sub.example.com", 0),
      Url("https", "other.com", 1),
      Url("mailto", "", 1),
      Url("", "example.com", 1),
      Url("", "", 0) }

\* the urls handed to a bare UrlStore by its callers
StoreUrls == {Url("http", "example.com", p) : p \in 0..MaxStorePath}

Main == 0
Workers == 1..NumThreads
Threads == {Main} \cup Workers

VARIABLES
    to_process,        \* UrlStore._to_process
    in_process,        \* UrlStore._in_process
    visited,           \* UrlStore._visited
    failed,            \* UrlStore._failed
    lock,              \* UrlStore._lock: 0 when free, else 1 + the holder
    print_lock,        \* WebCrawler._print_lock: 0 when free, else 1 + the holder
    pc,                \* where each thread is
    url,               \* each thread's url: the argument or the value returned
    urls,              \* each thread's list of urls (same_domain_urls, the argument urls)
    exc,               \* the exception the last call of each thread ended with
    max_retries,       \* WebPage._max_retries
    delay_sec,         \* WebPage._delay_sec
    script,            \* the results the mocked _request returns, in order
    calls,             \* the calls of _request and time.sleep _retry_request has made
    html_text,         \* WebContent._html_text: the <a> elements of the page, by their href
    num_visited,       \* each thread's num_of_visited in _print_results
    num_to_process,    \* each thread's num_to_process in _print_results
    interrupted,       \* a KeyboardInterrupt has reached _wait_for_threads
    claimed,           \* history: how often pop_if_exists has returned each url
    links              \* history: the same domain urls found on each fetched page

storeVars == <<to_process, in_process, visited, failed>>
printVars == <<print_lock, num_visited, num_to_process>>
fetchVars == <<max_retries, delay_sec, script, calls, html_text>>
\* what a bare UrlStore and its callers leave alone
crawlOnlyVars == <<fetchVars, printVars, interrupted, links>>
vars == <<to_process, in_process, visited, failed, lock, print_lock, pc, url, urls, exc,
          max_retries, delay_sec, script, calls, html_text, num_visited, num_to_process, interrupted,
          claimed, links>>

Free == 0
Holder(t) == t + 1

Min(a, b) == IF a < b THEN a ELSE b

(***************************************************************************)
(* UrlStore                                                                *)
(***************************************************************************)

\* with self._lock: (entering)
Acquire(t) ==
    /\ lock = Free
    /\ lock' = Holder(t)

\* a slip: the lock is acquired without `with` and not released
Release_never(t) ==
    /\ lock = Holder(t)
    /\ lock' = lock

\* with self._lock: (leaving, by return or by exception)
Release(t) ==
    /\ lock = Holder(t)
    /\ lock' = Free

pop_if_exists(t) ==
    /\ IF Cardinality(to_process) = 0
       THEN /\ url' = [url EXCEPT ![t] = None]
            /\ UNCHANGED <<to_process, in_process, claimed>>
       ELSE \E u \in to_process :
            /\ to_process' = to_process \ {u}
            /\ in_process' = in_process \cup {u}
            /\ url' = [url EXCEPT ![t] = u]
            /\ claimed' = [claimed EXCEPT ![u] = Min(@ + 1, 2)]
    /\ exc' = [exc EXCEPT ![t] = "none"]
    /\ UNCHANGED <<visited, failed>>

\* a slip: discard instead of remove, so that a url that is not in process
\* becomes visited without an error
_set_processed_discard(t, u) ==
    /\ in_process' = in_process \ {u}
    /\ visited' = visited \cup {u}
    /\ exc' = [exc EXCEPT ![t] = "none"]

\* self._in_process.remove(url) raises KeyError when url is not in the set
_set_processed(t, u) ==
    IF u \in in_process
    THEN /\ in_process' = in_process \ {u}
         /\ visited' = visited \cup {u}
         /\ exc' = [exc EXCEPT ![t] = "none"]
    ELSE /\ UNCHANGED <<in_process, visited>>
         /\ exc' = [exc EXCEPT ![t] = "KeyError"]

set_processed(t, u) ==
    /\ _set_processed(t, u)
    /\ UNCHANGED <<to_process, failed, claimed>>

\* a slip: the visited urls are not removed
add_to_be_processed_keep_visited(t, us) ==
    /\ LET new_urls == us \ in_process
       IN  to_process' = to_process \cup new_urls
    /\ exc' = [exc EXCEPT ![t] = "none"]
    /\ UNCHANGED <<in_process, visited, failed, claimed>>

\* a slip: the urls in process are not removed
add_to_be_processed_keep_in_process(t, us) ==
    /\ LET new_urls == us \ visited
       IN  to_process' = to_process \cup new_urls
    /\ exc' = [exc EXCEPT ![t] = "none"]
    /\ UNCHANGED <<in_process, visited, failed, claimed>>

\* a slip: the new urls replace the urls to process
add_to_be_processed_replace(t, us) ==
    /\ LET new_urls == (us \ visited) \ in_process
       IN  to_process' = new_urls
    /\ exc' = [exc EXCEPT ![t] = "none"]
    /\ UNCHANGED <<in_process, visited, failed, claimed>>

add_to_be_processed(t, us) ==
    /\ LET new_urls == (us \ visited) \ in_process
       IN  to_process' = to_process \cup new_urls
    /\ exc' = [exc EXCEPT ![t] = "none"]
    /\ UNCHANGED <<in_process, visited, failed, claimed>>

\* a slip: the url is logged as failed and left in process
add_failed_append_only(t, u) ==
    /\ failed' = Append(failed, u)
    /\ exc' = [exc EXCEPT ![t] = "none"]
    /\ UNCHANGED <<to_process, in_process, visited, claimed>>

add_failed(t, u) ==
    /\ failed' = Append(failed, u)
    /\ _set_processed(t, u)
    /\ UNCHANGED <<to_process, claimed>>

num_of_visited == Cardinality(visited)

\* a slip: the urls in process are not counted
num_of_all_without_in_process == Cardinality(to_process) + Cardinality(visited)

num_of_all == Cardinality(to_process) + Cardinality(visited) + Cardinality(in_process)

(***************************************************************************)
(* A bare UrlStore and NumThreads threads that call its operations in any  *)
(* order with any arguments.                                               *)
(***************************************************************************)
InitStore ==
    /\ to_process = {}
    /\ in_process = {}
    /\ visited = {}
    /\ failed = <<>>
    /\ lock = Free
    /\ pc = [t \in Threads |-> "idle"]
    /\ url = [t \in Threads |-> None]
    /\ urls = [t \in Threads |-> {}]
    /\ exc = [t \in Threads |-> "none"]
    /\ claimed = [u \in SiteUrls |-> 0]
    /\ links = [u \in SiteUrls |-> {}]
    /\ print_lock = Free
    /\ num_visited = [t \in Threads |-> 0]
    /\ num_to_process = [t \in Threads |-> 0]
    /\ interrupted = FALSE
    /\ max_retries = DefaultMaxRetries
    /\ delay_sec = DefaultDelaySec
    /\ script = <<>>
    /\ calls = <<>>
    /\ html_text = {}

\* a thread calls an operation and enters its `with self._lock:`
CallPop(t) ==
    /\ pc[t] = "idle"
    /\ UNCHANGED crawlOnlyVars
    /\ Acquire(t)
    /\ pc' = [pc EXCEPT ![t] = "call_pop"]
    /\ UNCHANGED <<storeVars, url, urls, exc, claimed>>

CallSetProcessed(t) ==
    /\ pc[t] = "idle"
    /\ UNCHANGED crawlOnlyVars
    /\ Acquire(t)
    /\ \E u \in StoreUrls : url' = [url EXCEPT ![t] = u]
    /\ pc' = [pc EXCEPT ![t] = "call_set_processed"]
    /\ UNCHANGED <<storeVars, urls, exc, claimed>>

CallAdd(t) ==
    /\ pc[t] = "idle"
    /\ UNCHANGED crawlOnlyVars
    /\ Acquire(t)
    /\ \E us \in SUBSET StoreUrls : urls' = [urls EXCEPT ![t] = us]
    /\ pc' = [pc EXCEPT ![t] = "call_add"]
    /\ UNCHANGED <<storeVars, url, exc, claimed>>

CallAddFailed(t) ==
    /\ pc[t] = "idle"
    /\ UNCHANGED crawlOnlyVars
    /\ Len(failed) < MaxFailed
    /\ Acquire(t)
    /\ \E u \in StoreUrls : url' = [url EXCEPT ![t] = u]
    /\ pc' = [pc EXCEPT ![t] = "call_add_failed"]
    /\ UNCHANGED <<storeVars, urls, exc, claimed>>

\* the body of the operation called, and the return to the caller, where the
\* arguments of the call go out of scope
DoPop(t) ==
    /\ pc[t] = "call_pop"
    /\ UNCHANGED crawlOnlyVars
    /\ pop_if_exists(t)
    /\ Release(t)
    /\ pc' = [pc EXCEPT ![t] = "idle"]
    /\ UNCHANGED urls

DoSetProcessed(t) ==
    /\ pc[t] = "call_set_processed"
    /\ UNCHANGED crawlOnlyVars
    /\ set_processed(t, url[t])
    /\ Release(t)
    /\ pc' = [pc EXCEPT ![t] = "idle"]
    /\ url' = [url EXCEPT ![t] = None]
    /\ UNCHANGED urls

DoAdd(t) ==
    /\ pc[t] = "call_add"
    /\ UNCHANGED crawlOnlyVars
    /\ add_to_be_processed(t, urls[t])
    /\ Release(t)
    /\ pc' = [pc EXCEPT ![t] = "idle"]
    /\ urls' = [urls EXCEPT ![t] = {}]
    /\ UNCHANGED url

DoAddFailed(t) ==
    /\ pc[t] = "call_add_failed"
    /\ UNCHANGED crawlOnlyVars
    /\ add_failed(t, url[t])
    /\ Release(t)
    /\ pc' = [pc EXCEPT ![t] = "idle"]
    /\ url' = [url EXCEPT ![t] = None]
    /\ UNCHANGED urls

NextStore ==
    \E t \in Workers :
        \/ CallPop(t)
        \/ CallSetProcessed(t)
        \/ CallAdd(t)
        \/ CallAddFailed(t)
        \/ DoPop(t)
        \/ DoSetProcessed(t)
        \/ DoAdd(t)
        \/ DoAddFailed(t)

SpecStore == InitStore /\ [][NextStore]_vars

(***************************************************************************)
(* Claims about the bare UrlStore, checked under SpecStore.                *)
(***************************************************************************)

\* C1: after any sequence of add_to_be_processed, pop_if_exists, set_processed
\* and add_failed by any threads on an empty store, _to_process, _in_process
\* and _visited are pairwise disjoint.
C1_PairwiseDisjoint ==
    /\ to_process \cap in_process = {}
    /\ to_process \cap visited = {}
    /\ in_process \cap visited = {}

\* C1, its case: one url is visited, another is in process, add_failed has
\* been called, and a thread is in a call of add_to_be_processed with both
C1_Witness ==
    \E t \in Workers : \E u, v \in StoreUrls :
        /\ u \in visited
        /\ v \in in_process
        /\ Len(failed) > 0
        /\ pc[t] = "call_add"
        /\ urls[t] = {u, v}

\* C2: pop_if_exists returns a given url at most once in the whole execution,
\* not again while it is in process and not again after it is visited, even
\* if add_to_be_processed is called with it again.
C2_ClaimedAtMostOnce ==
    \A u \in StoreUrls : claimed[u] <= 1

\* C2, its case: a url has been returned once and is visited, a thread is in
\* add_to_be_processed with it again and another thread is in pop_if_exists
\* after it
C2_Witness ==
    \E t \in Workers : \E u \in StoreUrls :
        /\ claimed[u] = 1
        /\ u \in visited
        /\ pc[t] = "call_pop"
        /\ \E v \in StoreUrls : v # u /\ v \in to_process /\ claimed[v] = 0

\* C4: add_to_be_processed({u}) changes nothing when u is visited, in process
\* or to be processed already, and num_of_all() stays; a url in none of the
\* three sets is added to _to_process and num_of_all() rises by exactly 1.
C4_AddSingleton ==
    [][\A t \in Workers : \A u \in StoreUrls :
          (pc[t] = "call_add" /\ pc'[t] = "idle" /\ urls[t] = {u}) =>
              /\ in_process' = in_process
              /\ visited' = visited
              /\ failed' = failed
              /\ IF u \in visited \cup in_process \cup to_process
                 THEN /\ to_process' = to_process
                      /\ num_of_all' = num_of_all
                 ELSE /\ to_process' = to_process \cup {u}
                      /\ num_of_all' = num_of_all + 1]_vars

\* C4, its case: a thread is in add_to_be_processed({u}) while u is in process
\* and the other url of the store is to be processed
C4_Witness ==
    \E t \in Workers : \E u, v \in StoreUrls :
        /\ pc[t] = "call_add"
        /\ urls[t] = {u}
        /\ u \in in_process
        /\ v \in to_process

\* C10: set_processed(url) with a url that is not in process fails with an
\* error (KeyError) and leaves the three sets and the failed list as they
\* were; with a url in process it moves the url from _in_process to _visited
\* and changes nothing else.
C10_SetProcessed ==
    [][\A t \in Workers :
          (pc[t] = "call_set_processed" /\ pc'[t] = "idle") =>
              IF url[t] \in in_process
              THEN /\ exc'[t] = "none"
                   /\ in_process' = in_process \ {url[t]}
                   /\ visited' = visited \cup {url[t]}
                   /\ to_process' = to_process
                   /\ failed' = failed
              ELSE /\ exc'[t] = "KeyError"
                   /\ UNCHANGED <<to_process, in_process, visited, failed>>]_vars

\* C10, its case: a call of set_processed has ended with KeyError (no
\* add_failed has been called yet) while a url was to be processed and
\* another one in process
C10_Witness ==
    \E t \in Workers :
        /\ pc[t] = "idle"
        /\ exc[t] = "KeyError"
        /\ failed = <<>>
        /\ to_process # {}
        /\ in_process # {}

\* C11, as stated: add_failed(url) is set_processed(url) plus one append of
\* url to _failed: with a url in process it moves the url from _in_process to
\* _visited and appends it to _failed exactly once; with a url that is not in
\* process it fails with an error (KeyError) and leaves the three sets and the
\* failed list as they were.
C11_AddFailed ==
    [][\A t \in Workers :
          (pc[t] = "call_add_failed" /\ pc'[t] = "idle") =>
              IF url[t] \in in_process
              THEN /\ exc'[t] = "none"
                   /\ in_process' = in_process \ {url[t]}
                   /\ visited' = visited \cup {url[t]}
                   /\ to_process' = to_process
                   /\ failed' = Append(failed, url[t])
              ELSE /\ exc'[t] = "KeyError"
                   /\ UNCHANGED <<to_process, in_process, visited, failed>>]_vars

\* C11, what the code does: the url is appended to _failed before
\* _set_processed looks for it in _in_process, so the append stays when the
\* KeyError is raised; the three sets are as the claim says.
C11_AddFailedAppendsFirst ==
    [][\A t \in Workers :
          (pc[t] = "call_add_failed" /\ pc'[t] = "idle") =>
              /\ failed' = Append(failed, url[t])
              /\ to_process' = to_process
              /\ IF url[t] \in in_process
                 THEN /\ exc'[t] = "none"
                      /\ in_process' = in_process \ {url[t]}
                      /\ visited' = visited \cup {url[t]}
                 ELSE /\ exc'[t] = "KeyError"
                      /\ UNCHANGED <<in_process, visited>>]_vars

(***************************************************************************)
(* WebContent                                                              *)
(***************************************************************************)

\* an href as urlparse sees it: scheme, netloc, path and fragment. Paths are
\* absolute: 0 is the empty path, p is the path /page<p> (or any other /...)
Href(s, h, p, f) == [scheme |-> s, netloc |-> h, path |-> p, fragment |-> f]

\* an <a> element without href
NoHref == [scheme |-> "None", netloc |-> "None", path |-> 0, fragment |-> "None"]

has_attr_href(link) == link # NoHref

\* urljoin(base, url) of urllib.parse, for a base without fragment and an href
\* with an absolute or empty path: an href with a scheme is taken as it is,
\* one with a netloc only gets the scheme of the base, one with a path only
\* gets scheme and netloc of the base, one with a fragment only gets the path
\* of the base too
urljoin(base, href) ==
    IF href.scheme # "" THEN href
    ELSE IF href.netloc # "" THEN Href(base.scheme, href.netloc, href.path, href.fragment)
    ELSE IF href.path # 0 THEN Href(base.scheme, base.netloc, href.path, href.fragment)
    ELSE Href(base.scheme, base.netloc, base.path, href.fragment)

\* urldefrag(url).url: the url without its fragment
urldefrag(a) == Url(a.scheme, a.netloc, a.path)

\* a slip: the fragment is left on the url
_get_absolute_url_keep_fragment(base_url, relative_url, url_defrag) ==
    LET absolute_url == urljoin(base_url, relative_url)
    IN  IF absolute_url.fragment = "" THEN urldefrag(absolute_url) ELSE absolute_url

\* a url without fragment is the same string with and without urldefrag
_get_absolute_url(base_url, relative_url, url_defrag) ==
    LET absolute_url == urljoin(base_url, relative_url)
    IN  IF url_defrag \/ absolute_url.fragment = ""
        THEN urldefrag(absolute_url)
        ELSE absolute_url

\* WebContent(url, html).urls(url_defrag), up to order and repetition
WebContent_urls(base_url, html, url_defrag) ==
    {_get_absolute_url(base_url, link, url_defrag) : link \in {l \in html : has_attr_href(l)}}

\* the <a> elements of the page of the scenario: /page1,
\* http://example.com/page2, http://example.com/page3#section,
\* https://example.com/page4 and http://other.com/x
ScenarioLinks ==
    { Href("", "", 1, ""),
      Href("http", "example.com", 2, ""),
      Href("http", "example.com", 3, "section"),
      Href("https", "example.com", 4, ""),
      Href("http", "other.com", 5, "") }

\* the <a> elements a page is made of: those of the scenario, #section and an
\* <a> without href (as in the page of WebContentTests), //example.com/page2
\* and mailto:
Anchors ==
    ScenarioLinks \cup
    { Href("", "", 0, "section"),
      NoHref,
      Href("", "example.com", 2, ""),
      Href("mailto", "", 1, "") }

(***************************************************************************)
(* WebPage                                                               *)
(***************************************************************************)

\* the while loop of _retry_request from `retries` on, when the requests are
\* answered as results says (TRUE: status 200): whether it returns the content
\* (or raises WebPageException), the content it returns (the text of the n-th
\* response is n; 0 when it raises) and the calls it makes, in order
RequestCall == [call |-> "request", arg |-> 0]
SleepCall(sec) == [call |-> "sleep", arg |-> sec]

\* a slip: no sleep after the last attempt
RECURSIVE _retry_loop_no_last_sleep(_, _, _, _)
_retry_loop_no_last_sleep(retries, max, delay, results) ==
    IF retries < max
    THEN IF results[retries + 1]
         THEN [success |-> TRUE, content |-> retries + 1, calls |-> <<RequestCall>>]
         ELSE LET rest == _retry_loop_no_last_sleep(retries + 1, max, delay, results)
              IN  [success |-> rest.success, content |-> rest.content,
                   calls |-> (IF retries + 1 < max
                              THEN <<RequestCall, SleepCall(delay)>>
                              ELSE <<RequestCall>>) \o rest.calls]
    ELSE [success |-> FALSE, content |-> 0, calls |-> <<>>]

RECURSIVE _retry_loop(_, _, _, _)
_retry_loop(retries, max, delay, results) ==
    IF retries < max
    THEN IF results[retries + 1]
         THEN [success |-> TRUE, content |-> retries + 1, calls |-> <<RequestCall>>]
         ELSE LET rest == _retry_loop(retries + 1, max, delay, results)
              IN  [success |-> rest.success, content |-> rest.content,
                   calls |-> <<RequestCall, SleepCall(delay)>> \o rest.calls]
    ELSE [success |-> FALSE, content |-> 0, calls |-> <<>>]

_retry_request(max, delay, results) == _retry_loop(0, max, delay, results)

(***************************************************************************)
(* One WebPage(url, max_retries, delay_sec) whose _request is mocked to    *)
(* return the results of script in order, and one call of _retry_request.  *)
(***************************************************************************)
InitFetch ==
    /\ to_process = {}
    /\ in_process = {}
    /\ visited = {}
    /\ failed = <<>>
    /\ lock = Free
    /\ print_lock = Free
    /\ pc = [t \in Threads |-> IF t = Main THEN "fetch" ELSE "idle"]
    /\ url = [t \in Threads |-> IF t = Main THEN starting_url ELSE None]
    /\ urls = [t \in Threads |-> {}]
    /\ exc = [t \in Threads |-> "none"]
    /\ num_visited = [t \in Threads |-> 0]
    /\ num_to_process = [t \in Threads |-> 0]
    /\ interrupted = FALSE
    /\ claimed = [u \in SiteUrls |-> 0]
    /\ links = [u \in SiteUrls |-> {}]
    /\ max_retries \in 0..MaxRetriesArg
    /\ delay_sec \in 1..MaxDelayArg
    /\ script \in [1..max_retries -> BOOLEAN]
    /\ calls = <<>>
    /\ html_text = {}

\* self.web_page._retry_request()
RetryRequest ==
    /\ pc[Main] = "fetch"
    /\ LET r == _retry_request(max_retries, delay_sec, script)
       IN  /\ calls' = r.calls
           /\ pc' = [pc EXCEPT ![Main] = IF r.success THEN "fetch_returned" ELSE "fetch_raised"]
           /\ exc' = [exc EXCEPT ![Main] = IF r.success THEN "none" ELSE "WebPageException"]
    /\ UNCHANGED <<storeVars, lock, printVars, url, urls, max_retries, delay_sec,
                   script, html_text, interrupted, claimed, links>>

NextFetch == RetryRequest

SpecFetch == InitFetch /\ [][NextFetch]_vars

(***************************************************************************)
(* WebCrawler                                                              *)
(***************************************************************************)

\* self._domain = urlparse(starting_url).netloc
_domain == starting_url.netloc

\* a slip: a host that ends with the domain is taken for the domain
_is_same_domain_endswith(u) == u.netloc \in {_domain, "sub." \o _domain}

_is_same_domain(u) == u.netloc = _domain

_is_valid_url(u) == u.scheme # "" /\ u.netloc # ""

\* the page /p of the site, if there is one
Page(p) == {Url("http", "example.com", q) : q \in {p} \cap (0..MaxPath)}

\* what WebPage(url).content().urls(url_defrag=True) may return for page /p of
\* the site: no link at all; only links that are not to be crawled; or, among
\* such links and links to the starting url and to the page itself, a link to
\* the next page, or links to the next page and to the one after it
PageChoices(u) ==
    { {},
      NoiseUrls,
      Page(u.path + 1) \cup {starting_url, u} \cup NoiseUrls,
      Page(u.path + 1) \cup Page(u.path + 2) \cup {starting_url, u} \cup NoiseUrls }

\* where a thread goes on after _process_page has returned
AfterPage(t) == IF t = Main THEN "create" ELSE "pop_wait"

\* a slip: _process_all_pages catches WebPageException and goes on without
\* add_failed
AfterWebPageException_no_add_failed(t) == IF t = Main THEN "raised" ELSE "pop_wait"

\* where a thread goes on after _process_page has raised WebPageException:
\* _process_all_pages catches it, crawl does not
AfterWebPageException(t) == IF t = Main THEN "raised" ELSE "add_failed_wait"

\* where a thread goes on after an exception nobody catches
Uncaught(t) == IF t = Main THEN "raised" ELSE "died"

\* Thread.is_alive
is_alive(t) == pc[t] \notin {"unstarted", "exited", "died"}

Init ==
    /\ to_process = {}
    /\ in_process = {}
    /\ visited = {}
    /\ failed = <<>>
    /\ lock = Free
    /\ print_lock = Free
    /\ pc = [t \in Threads |-> IF t = Main THEN "add_seed_wait" ELSE "unstarted"]
    /\ url = [t \in Threads |-> None]
    /\ urls = [t \in Threads |-> {}]
    /\ exc = [t \in Threads |-> "none"]
    /\ num_visited = [t \in Threads |-> 0]
    /\ num_to_process = [t \in Threads |-> 0]
    /\ interrupted = FALSE
    /\ claimed = [u \in SiteUrls |-> 0]
    /\ links = [u \in SiteUrls |-> {}]
    /\ max_retries = DefaultMaxRetries
    /\ delay_sec = DefaultDelaySec
    /\ script = <<>>
    /\ calls = <<>>
    /\ html_text = {}

\* the places where a thread waits for self._lock, and where it is once it holds it
LockedPc ==
    [ add_seed_wait |-> "add_seed",
      pop_wait |-> "pop",
      set_processed_wait |-> "set_processed",
      add_wait |-> "add",
      add_failed_wait |-> "add_failed",
      num_of_visited_wait |-> "num_of_visited",
      num_of_all_wait |-> "num_of_all" ]

\* with self._lock: in any operation of the store
AcquireLock(t) ==
    /\ pc[t] \in DOMAIN LockedPc
    /\ Acquire(t)
    /\ pc' = [pc EXCEPT ![t] = LockedPc[pc[t]]]
    /\ UNCHANGED <<storeVars, printVars, url, urls, exc, fetchVars, interrupted,
                   claimed, links>>

\* crawl: self._url_store.add_to_be_processed([self._starting_url])
CrawlAddSeed ==
    /\ pc[Main] = "add_seed"
    /\ add_to_be_processed(Main, {starting_url})
    /\ Release(Main)
    /\ pc' = [pc EXCEPT ![Main] = "pop_wait"]
    /\ UNCHANGED <<printVars, url, urls, fetchVars, interrupted, links>>

\* crawl: self._process_page(self._url_store.pop_if_exists())
\* _process_all_pages: url = self._url_store.pop_if_exists(); if not url: break
Pop(t) ==
    /\ pc[t] = "pop"
    /\ pop_if_exists(t)
    /\ Release(t)
    /\ pc' = [pc EXCEPT ![t] = IF t # Main /\ url'[t] = None THEN "exited" ELSE "fetch"]
    /\ UNCHANGED <<printVars, urls, fetchVars, interrupted, links>>

\* _process_page: all_urls = list(filter(self._is_valid_url, list(set(found_urls))))
all_urls(found_urls) == {u \in found_urls : _is_valid_url(u)}

\* _process_page: same_domain_urls = list(filter(self._is_same_domain, all_urls))
same_domain_urls(found_urls) == {u \in all_urls(found_urls) : _is_same_domain(u)}

(***************************************************************************)
(* _process_page of a WebCrawler for the starting url, from the html of    *)
(* the page fetched to same_domain_urls.                                   *)
(***************************************************************************)
InitExtract ==
    /\ to_process = {}
    /\ in_process = {starting_url}
    /\ visited = {}
    /\ failed = <<>>
    /\ lock = Free
    /\ print_lock = Free
    /\ pc = [t \in Threads |-> IF t = Main THEN "extract" ELSE "unstarted"]
    /\ url = [t \in Threads |-> IF t = Main THEN starting_url ELSE None]
    /\ urls = [t \in Threads |-> {}]
    /\ exc = [t \in Threads |-> "none"]
    /\ num_visited = [t \in Threads |-> 0]
    /\ num_to_process = [t \in Threads |-> 0]
    /\ interrupted = FALSE
    /\ claimed = [u \in SiteUrls |-> IF u = starting_url THEN 1 ELSE 0]
    /\ links = [u \in SiteUrls |-> {}]
    /\ max_retries = DefaultMaxRetries
    /\ delay_sec = DefaultDelaySec
    /\ script = <<>>
    /\ calls = <<>>
    /\ html_text \in SUBSET Anchors

\* found_urls = WebPage(url).content().urls(url_defrag=True), all_urls and
\* same_domain_urls
Extract ==
    /\ pc[Main] = "extract"
    /\ LET found_urls == WebContent_urls(url[Main], html_text, TRUE)
       IN  urls' = [urls EXCEPT ![Main] = same_domain_urls(found_urls)]
    /\ pc' = [pc EXCEPT ![Main] = "extracted"]
    /\ UNCHANGED <<storeVars, lock, printVars, url, exc, fetchVars, interrupted,
                   claimed, links>>

NextExtract == Extract

SpecExtract == InitExtract /\ [][NextExtract]_vars

\* whether WebPage(url).content() returns (TRUE) or raises WebPageException
\* (FALSE), over all the ways its requests can be answered
FetchOutcomes ==
    {_retry_request(max_retries, delay_sec, results).success :
        results \in [1..max_retries -> BOOLEAN]}

\* _process_page, up to same_domain_urls: the requests and sleeps of
\* WebPage(url).content(), then found_urls, all_urls and same_domain_urls when
\* the page was fetched and WebPageException when it was not
Fetch(t) ==
    /\ pc[t] = "fetch"
    /\ \E fetched \in FetchOutcomes :
         IF fetched
         THEN \E same \in {same_domain_urls(found_urls) : found_urls \in PageChoices(url[t])} :
                /\ urls' = [urls EXCEPT ![t] = same]
                /\ links' = [links EXCEPT ![url[t]] = same]
                /\ pc' = [pc EXCEPT ![t] = "set_processed_wait"]
                /\ UNCHANGED exc
         ELSE /\ pc' = [pc EXCEPT ![t] = AfterWebPageException(t)]
              /\ exc' = [exc EXCEPT ![t] = "WebPageException"]
              /\ UNCHANGED <<urls, links>>
    /\ UNCHANGED <<storeVars, lock, printVars, url, fetchVars, interrupted, claimed>>

\* _process_page: self._url_store.set_processed(url)
SetProcessed(t) ==
    /\ pc[t] = "set_processed"
    /\ set_processed(t, url[t])
    /\ Release(t)
    /\ pc' = [pc EXCEPT ![t] = IF exc'[t] = "none" THEN "add_wait" ELSE Uncaught(t)]
    /\ UNCHANGED <<printVars, url, urls, fetchVars, interrupted, links>>

\* _process_page: self._url_store.add_to_be_processed(same_domain_urls)
Add(t) ==
    /\ pc[t] = "add"
    /\ add_to_be_processed(t, urls[t])
    /\ Release(t)
    /\ pc' = [pc EXCEPT ![t] = "print_wait"]
    /\ UNCHANGED <<printVars, url, urls, fetchVars, interrupted, links>>

\* _print_results: with self._print_lock:
PrintAcquire(t) ==
    /\ pc[t] = "print_wait"
    /\ print_lock = Free
    /\ print_lock' = Holder(t)
    /\ pc' = [pc EXCEPT ![t] = "num_of_visited_wait"]
    /\ UNCHANGED <<storeVars, lock, num_visited, num_to_process, url, urls, exc,
                   fetchVars, interrupted, claimed, links>>

\* _print_results: num_of_visited = self._url_store.num_of_visited()
NumOfVisited(t) ==
    /\ pc[t] = "num_of_visited"
    /\ num_visited' = [num_visited EXCEPT ![t] = num_of_visited]
    /\ Release(t)
    /\ pc' = [pc EXCEPT ![t] = "num_of_all_wait"]
    /\ UNCHANGED <<storeVars, print_lock, num_to_process, url, urls, exc,
                   fetchVars, interrupted, claimed, links>>

\* _print_results: num_to_process = self._url_store.num_of_all()
NumOfAll(t) ==
    /\ pc[t] = "num_of_all"
    /\ num_to_process' = [num_to_process EXCEPT ![t] = num_of_all]
    /\ Release(t)
    /\ pc' = [pc EXCEPT ![t] = "print"]
    /\ UNCHANGED <<storeVars, print_lock, num_visited, url, urls, exc,
                   fetchVars, interrupted, claimed, links>>

\* _print_results: the prints, the end of `with self._print_lock:` and the
\* return of _process_page, where its variables go out of scope
PrintResults(t) ==
    /\ pc[t] = "print"
    /\ print_lock = Holder(t)
    /\ print_lock' = Free
    /\ num_visited' = [num_visited EXCEPT ![t] = 0]
    /\ num_to_process' = [num_to_process EXCEPT ![t] = 0]
    /\ urls' = [urls EXCEPT ![t] = {}]
    /\ pc' = [pc EXCEPT ![t] = AfterPage(t)]
    /\ UNCHANGED <<storeVars, lock, url, exc, fetchVars, interrupted, claimed, links>>

\* _process_all_pages: except WebPageException: self._url_store.add_failed(url)
AddFailed(t) ==
    /\ pc[t] = "add_failed"
    /\ add_failed(t, url[t])
    /\ Release(t)
    /\ pc' = [pc EXCEPT ![t] = IF exc'[t] = "none" THEN "pop_wait" ELSE Uncaught(t)]
    /\ UNCHANGED <<printVars, url, urls, fetchVars, interrupted, links>>

\* _create_threads: thread.start() of the next thread; after the last one
\* crawl goes on to _wait_for_threads
CreateThread ==
    /\ pc[Main] = "create"
    /\ \E t \in Workers :
         /\ pc[t] = "unstarted"
         /\ \A o \in Workers : o < t => pc[o] # "unstarted"
         /\ pc' = [pc EXCEPT ![t] = "pop_wait",
                             ![Main] = IF t = NumThreads THEN "join" ELSE "create"]
    /\ UNCHANGED <<storeVars, lock, printVars, url, urls, exc, fetchVars,
                   interrupted, claimed, links>>

\* _wait_for_threads: no thread is alive any more, crawl returns
Join ==
    /\ pc[Main] = "join"
    /\ \A t \in Workers : ~ is_alive(t)
    /\ pc' = [pc EXCEPT ![Main] = "returned"]
    /\ UNCHANGED <<storeVars, lock, printVars, url, urls, exc, fetchVars,
                   interrupted, claimed, links>>

\* a KeyboardInterrupt reaches the main thread while workers run. In
\* _wait_for_threads: except KeyboardInterrupt: the message is printed and
\* crawl returns; in _create_threads nothing catches it and crawl raises. The
\* threads run on in both cases.
Interrupt ==
    /\ pc[Main] \in {"create", "join"}
    /\ \E t \in Workers : is_alive(t)
    /\ interrupted' = TRUE
    /\ pc' = [pc EXCEPT ![Main] = IF pc[Main] = "join" THEN "returned" ELSE "raised"]
    /\ exc' = [exc EXCEPT ![Main] = IF pc[Main] = "join" THEN "none" ELSE "KeyboardInterrupt"]
    /\ UNCHANGED <<storeVars, lock, printVars, url, urls, fetchVars, claimed, links>>

Step(t) ==
    \/ AcquireLock(t)
    \/ Pop(t)
    \/ Fetch(t)
    \/ SetProcessed(t)
    \/ Add(t)
    \/ PrintAcquire(t)
    \/ NumOfVisited(t)
    \/ NumOfAll(t)
    \/ PrintResults(t)
    \/ AddFailed(t)

\* a crawl that no KeyboardInterrupt reaches
Next ==
    \/ CrawlAddSeed
    \/ CreateThread
    \/ Join
    \/ \E t \in Threads : Step(t)

Spec == Init /\ [][Next]_vars

\* a crawl that a KeyboardInterrupt may reach
NextInterruptible ==
    \/ Next
    \/ Interrupt

SpecInterruptible == Init /\ [][NextInterruptible]_vars

\* the threads are scheduled fairly: a step that stays possible is taken
FairSpec ==
    /\ Spec
    /\ WF_vars(CrawlAddSeed)
    /\ WF_vars(CreateThread)
    /\ WF_vars(Join)
    /\ \A t \in Threads : WF_vars(Step(t))

(***************************************************************************)
(* Claims about WebPage._retry_request, checked under SpecFetch.           *)
(***************************************************************************)
Requests == Cardinality({i \in DOMAIN calls : calls[i].call = "request"})

Sleeps == Cardinality({i \in DOMAIN calls : calls[i].call = "sleep"})

AlwaysFails == \A i \in DOMAIN script : ~ script[i]

\* C9, as stated: a fetcher whose max_retries >= 1 attempts all fail issues
\* exactly max_retries requests and max_retries - 1 sleeps (3 requests and 2
\* sleeps for max_retries = 3), and raises WebPageException.
C9_SleepsBetweenAttempts ==
    (pc[Main] # "fetch" /\ AlwaysFails /\ max_retries >= 1) =>
        /\ pc[Main] = "fetch_raised"
        /\ Requests = max_retries
        /\ Sleeps = max_retries - 1

\* C9, amended: a fetcher whose max_retries attempts all fail issues exactly
\* max_retries requests and max_retries sleeps of delay_sec, one after every
\* failed request, the last one included (3 requests and 3 sleeps for
\* max_retries = 3), and raises WebPageException.
C9_SleepsAfterEveryAttempt ==
    (pc[Main] # "fetch" /\ AlwaysFails) =>
        /\ pc[Main] = "fetch_raised"
        /\ exc[Main] = "WebPageException"
        /\ Requests = max_retries
        /\ Sleeps = max_retries
        /\ \A i \in DOMAIN calls :
             calls[i] = IF i % 2 = 1 THEN RequestCall ELSE SleepCall(delay_sec)

\* C9, its case: max_retries = 3 and _retry_request has raised
C9_Witness ==
    /\ max_retries = 3
    /\ AlwaysFails
    /\ pc[Main] = "fetch_raised"
    /\ Len(calls) = 6

\* the first attempt that succeeds, if one does
FirstSuccess == CHOOSE k \in DOMAIN script : script[k] /\ \A j \in 1..(k - 1) : ~ script[j]

\* C16: _retry_request sleeps once after every failed attempt, the last one
\* included. When the first successful attempt is attempt k <= max_retries, it
\* makes exactly k requests and k - 1 sleeps of delay_sec and returns the
\* content of that attempt; when all max_retries attempts fail, it makes
\* exactly max_retries requests and max_retries sleeps and then raises
\* WebPageException.
C16_RequestsAndSleeps ==
    pc[Main] # "fetch" =>
        /\ \A i \in DOMAIN calls :
              calls[i] = IF i % 2 = 1 THEN RequestCall ELSE SleepCall(delay_sec)
        /\ IF AlwaysFails
           THEN /\ pc[Main] = "fetch_raised"
                /\ exc[Main] = "WebPageException"
                /\ Requests = max_retries
                /\ Sleeps = max_retries
           ELSE /\ pc[Main] = "fetch_returned"
                /\ exc[Main] = "none"
                /\ Requests = FirstSuccess
                /\ Sleeps = FirstSuccess - 1
                /\ _retry_request(max_retries, delay_sec, script).content = FirstSuccess

\* C16, its case: the third of four attempts has succeeded, after two sleeps
\* of 2 seconds, and a fourth would have failed
C16_Witness ==
    /\ pc[Main] = "fetch_returned"
    /\ max_retries = 4
    /\ delay_sec = 2
    /\ script = <<FALSE, FALSE, TRUE, FALSE>>
    /\ calls = <<RequestCall, SleepCall(2), RequestCall, SleepCall(2), RequestCall>>

(***************************************************************************)
(* Claims about the crawl, checked under Spec, FairSpec, SpecInterruptible *)
(* and SpecExtract.                                                        *)
(***************************************************************************)

\* crawl() has returned and no thread is alive
Returned == pc[Main] = "returned" /\ \A t \in Workers : ~ is_alive(t)

\* the thread has executed add_to_be_processed(same_domain_urls) of its page
\* and is in _print_results
PostAdd(t) ==
    pc[t] \in {"print_wait", "num_of_visited_wait", "num_of_visited",
               "num_of_all_wait", "num_of_all", "print"}

\* how often num_of_all() counts u
CountedInAll(u) ==
    (IF u \in to_process THEN 1 ELSE 0) + (IF u \in in_process THEN 1 ELSE 0)
        + (IF u \in visited THEN 1 ELSE 0)

\* the urls reachable from the starting url by the same domain links of the
\* pages fetched
RECURSIVE Closure(_)
Closure(S) ==
    LET N == S \cup UNION {links[u] : u \in S}
    IN  IF N = S THEN S ELSE Closure(N)

Reachable == Closure({starting_url})

\* C3: a url that threads have added, two of them concurrently included, is
\* counted once by num_of_all(), is returned by pop_if_exists at most once
\* and, when the crawl has returned, has been returned exactly once.
C3_NoLossNoDuplicate ==
    /\ \A t \in Threads : PostAdd(t) => \A u \in urls[t] : CountedInAll(u) = 1
    /\ \A u \in SiteUrls : claimed[u] <= 1
    /\ Returned => \A p \in SiteUrls : \A u \in links[p] : claimed[u] = 1

\* C3, its case: two workers have both added a url that only their two pages
\* link to, and it waits to be processed, once
C3_Witness ==
    \E t1, t2 \in Workers : \E u \in SiteUrls :
        /\ t1 # t2
        /\ PostAdd(t1) /\ PostAdd(t2)
        /\ u \in urls[t1] \cap urls[t2]
        /\ u \notin {starting_url, url[t1], url[t2]}
        /\ \A p \in SiteUrls \ {url[t1], url[t2]} : u \notin links[p]
        /\ u \in to_process
        /\ claimed[u] = 0

\* C5: when crawl() has returned after all workers exited, nothing is to be
\* processed or in process and the visited urls are exactly those reachable
\* from the starting url by the same domain links of the pages fetched; a
\* starting page without same domain links ends with num_of_visited() = 1.
C5_DrainedOnReturn ==
    Returned =>
        /\ to_process = {}
        /\ in_process = {}
        /\ visited = Reachable
        /\ links[starting_url] \subseteq {starting_url} => num_of_visited = 1

\* C5, its case: crawl() has returned, a fetch had failed and a page of the
\* site was not reachable
C5_Witness ==
    /\ Returned
    /\ Len(failed) >= 1
    /\ Cardinality(visited) >= 3
    /\ visited # SiteUrls

\* C12: in every state of a crawl, seen between the operations of the store,
\* every url in _failed is in _visited and _failed holds no url twice.
C12_FailedVisitedOnce ==
    /\ \A i \in DOMAIN failed : failed[i] \in visited
    /\ \A i, j \in DOMAIN failed : failed[i] = failed[j] => i = j

\* C12, its case: the fetch of a url has failed and it is in _failed, and a
\* worker whose fetch has failed too is about to call add_failed
C12_Witness ==
    /\ Len(failed) >= 1
    /\ \E t \in Workers : pc[t] = "add_failed_wait" /\ url[t] \in in_process

\* C13: every url that is to be processed, in process or visited has exactly
\* the netloc of the starting url (sub.example.com is not example.com), and a
\* link whose scheme or netloc is empty is never passed to add_to_be_processed.
C13_StaysOnDomain ==
    /\ \A u \in to_process \cup in_process \cup visited :
          /\ u.netloc = starting_url.netloc
          /\ u.scheme # "" /\ u.netloc # ""
    /\ \A t \in Threads : \A u \in urls[t] :
          /\ u.netloc = starting_url.netloc
          /\ u.scheme # "" /\ u.netloc # ""

\* C13, its case: a worker has fetched a page with a link to a further page of
\* the site (every such page of PageChoices has all the links of NoiseUrls
\* too), has passed its same_domain_urls to add_to_be_processed, and urls of
\* that page are to be processed
C13_Witness ==
    \E t \in Workers :
        /\ PostAdd(t)
        /\ urls[t] \ {starting_url, url[t]} # {}
        /\ urls[t] \cap to_process # {}
        /\ \E found_urls \in PageChoices(url[t]) :
              /\ NoiseUrls \subseteq found_urls
              /\ urls[t] = same_domain_urls(found_urls)

\* C14, as stated: after a KeyboardInterrupt has reached crawl() while workers
\* run, crawl() returns without raising and the workers shut down: none of
\* them gets a further url from pop_if_exists after the interrupt.
C14_NoClaimAfterInterrupt ==
    [][interrupted =>
          /\ pc[Main] = "returned"
          /\ \A t \in Workers : ~ (pc[t] = "pop" /\ pc'[t] = "fetch")]_vars

\* C15, as stated: for the starting url http://example.com and a page with
\* the links /page1, http://example.com/page2, http://example.com/page3#section,
\* https://example.com/page4 and http://other.com/x, same_domain_urls is
\* exactly http://example.com/page1, /page2 and /page3.
C15_ScenarioThreeUrls ==
    (pc[Main] = "extracted" /\ html_text = ScenarioLinks) =>
        urls[Main] = {Url("http", "example.com", 1), Url("http", "example.com", 2),
                      Url("http", "example.com", 3)}

\* C15, amended: for that page same_domain_urls is exactly
\* http://example.com/page1, /page2 and /page3 (relative link resolved,
\* fragment removed) and https://example.com/page4, whose netloc is that of the
\* starting url; http://other.com/x is not in it.
C15_ScenarioFourUrls ==
    (pc[Main] = "extracted" /\ html_text = ScenarioLinks) =>
        urls[Main] = {Url("http", "example.com", 1), Url("http", "example.com", 2),
                      Url("http", "example.com", 3), Url("https", "example.com", 4)}

\* C15, its case: the page of the scenario has gone through _process_page up
\* to same_domain_urls
C15_Witness ==
    /\ pc[Main] = "extracted"
    /\ url[Main] = starting_url
    /\ html_text = ScenarioLinks

\* C17: no thread holds the lock of the store while it is in a request or a
\* retry sleep (in WebPage(url).content()); and while one worker is there,
\* every other thread can still complete its pop_if_exists, set_processed,
\* add_failed or add_to_be_processed: the one inside an operation can finish
\* it, and one that waits can enter as soon as the lock is free, which only a
\* thread inside an operation, never one in a fetch, delays.
C17_NoLockAcrossFetch ==
    /\ \A o \in Threads :
          lock = Holder(o) =>
              /\ pc[o] \in {LockedPc[w] : w \in DOMAIN LockedPc}
              /\ ENABLED Step(o) \/ (o = Main /\ ENABLED CrawlAddSeed)
    /\ \A t \in Threads :
          pc[t] = "fetch" =>
              /\ lock # Holder(t)
              /\ \A o \in Threads \ {t} :
                    (pc[o] \in DOMAIN LockedPc /\ lock = Free) => ENABLED AcquireLock(o)

\* C17, its case: a worker is in the fetch of its page, another one is inside
\* pop_if_exists, set_processed, add_to_be_processed or add_failed
C17_Witness ==
    \E t, o \in Workers :
        /\ t # o
        /\ pc[t] = "fetch"
        /\ pc[o] \in {"pop", "set_processed", "add", "add_failed"}
        /\ lock = Holder(o)
        /\ to_process # {}

\* C18, as stated: once the starting url has been added, from a state where
\* nothing is to be processed and nothing is in process no url is added to
\* _to_process any more: the links of a page are in the store before the page
\* leaves _in_process.
C18_ExhaustionStable ==
    [][(/\ pc[Main] \notin {"add_seed_wait", "add_seed"}
        /\ to_process = {}
        /\ in_process = {}) => to_process' = {}]_vars

\* C18, what the code does: the page leaves _in_process first; from a state
\* where nothing is to be processed or in process, urls are added only by a
\* thread that is between set_processed(url) and
\* add_to_be_processed(same_domain_urls) of its page.
C18_ExhaustionStableWhenNoAddPending ==
    [][(/\ pc[Main] \notin {"add_seed_wait", "add_seed"}
        /\ to_process = {}
        /\ in_process = {}
        /\ \A t \in Threads : pc[t] \notin {"add_wait", "add"}) =>
            /\ to_process' = {}
            /\ in_process' = {}
            /\ \A t \in Threads : pc'[t] \notin {"add_wait", "add"}]_vars

\* C19: num_of_all() never decreases, whatever the threads do to the store,
\* so that in every report of _print_results the printed number of visited
\* urls is at most the printed total, although the two are read in two
\* critical sections between which other threads change the store.
C19_VisitedAtMostTotal ==
    [][/\ num_of_all' >= num_of_all
       /\ \A t \in Threads :
             pc'[t] = "print" => num_visited'[t] <= num_to_process'[t]]_vars

\* C19, its case: a worker is about to print its two numbers, and the store
\* has more visited urls by now than the worker has read
C19_Witness ==
    \E t \in Workers :
        /\ pc[t] = "print"
        /\ num_visited[t] < num_of_visited
        /\ num_visited[t] < num_to_process[t]

\* C20: the two locks cannot deadlock. A thread that waits for the lock of the
\* store holds nothing or only the print lock; a thread that waits for the
\* print lock holds nothing, and no thread ever holds the lock of the store
\* outside an operation of the store; and under fair scheduling every thread
\* that waits for one of the two locks gets it.
C20_NoDeadlock ==
    /\ [](\A t \in Threads :
            /\ pc[t] \in DOMAIN LockedPc =>
                  /\ lock # Holder(t)
                  /\ print_lock = Holder(t) <=>
                        pc[t] \in {"num_of_visited_wait", "num_of_all_wait"}
            /\ pc[t] = "print_wait" => (lock # Holder(t) /\ print_lock # Holder(t))
            /\ lock = Holder(t) => pc[t] \in {LockedPc[w] : w \in DOMAIN LockedPc})
    /\ \A t \in Threads :
          /\ (pc[t] \in DOMAIN LockedPc) ~> (lock = Holder(t))
          /\ (pc[t] = "print_wait") ~> (print_lock = Holder(t))

\* C20, its case: a worker that holds the print lock waits for the lock of the
\* store, which the other worker holds
C20_Witness ==
    \E t, o \in Workers :
        /\ t # o
        /\ print_lock = Holder(t)
        /\ pc[t] \in {"num_of_visited_wait", "num_of_all_wait"}
        /\ lock = Holder(o)

\* C6, as stated: under fair scheduling crawl() returns after every worker has
\* left its loop.
C6_CrawlReturns == <>Returned

\* C6, what the code does: the crawl ends, returning after every worker has
\* left its loop or raising the WebPageException of the starting url.
C6_CrawlEnds == <>(Returned \/ pc[Main] = "raised")

\* C7, as stated: a worker leaves its loop only when its pop_if_exists
\* returned None and no url is in process.
C7_ExitOnlyWhenNothingInProcess ==
    [][\A t \in Workers :
          (pc[t] = "pop" /\ pc'[t] = "exited") =>
              /\ url'[t] = None
              /\ in_process' = {}]_vars

\* C8, as stated: when all requests of a claimed url fail, the starting url
\* included, the WebPageException goes to add_failed and no further: crawl()
\* does not raise and no thread is aborted.
C8_FetchFailureContained ==
    \A t \in Threads :
        /\ pc[t] \notin {"raised", "died"}
        /\ exc[t] = "WebPageException" => pc[t] \in {"add_failed_wait", "add_failed"}

\* C8, what the code does for the urls the workers claim: the
\* WebPageException goes to add_failed, which appends the url to _failed and
\* moves it from _in_process to _visited, and the worker goes on.
C8_WorkerFailureContained ==
    [][\A t \in Workers :
          /\ pc[t] # "died"
          /\ exc[t] = "WebPageException" => pc[t] \in {"add_failed_wait", "add_failed"}
          /\ (pc[t] = "add_failed" /\ pc'[t] # "add_failed") =>
                /\ failed' = Append(failed, url[t])
                /\ url[t] \in in_process /\ url[t] \notin in_process'
                /\ url[t] \in visited'
                /\ to_process' = to_process
                /\ pc'[t] = "pop_wait"]_vars

====
